---- MODULE Spec2Model ----
(***************************************************************************)
(* Model of backup.py: a single-shot job that dumps a PostgreSQL database  *)
(* with pg_dump, uploads the dump to S3 and reports the outcome through    *)
(* CloudWatch metrics and SNS notifications.                               *)
(*                                                                         *)
(* Strings that the program takes apart (environment values) are modelled  *)
(* as sequences of one-character strings.  The external collaborators      *)
(* (pg_dump, S3, CloudWatch, SNS, the file system) are modelled by the     *)
(* results their calls can produce.                                        *)
(***************************************************************************)
EXTENDS Naturals, Integers, Sequences, FiniteSets, TLC

VARIABLES
    environ,   \* os.environ as read at import time (lines 24-30)
    world,     \* what pg_dump, S3 and the file system answer in this execution
    proc       \* the executions of main(): position, pending exception, exit code, history

vars == <<environ, world, proc>>

----------------------------------------------------------------------------
(* Bounds and value sets *)

\* Longest S3_BUCKET setting that is enumerated.
MaxBucketLen == 3

\* Last instant of the clock that is enumerated, and the instants in a day.
MaxClock == 2
TicksPerDay == 2

\* Characters of an S3_BUCKET setting: a name character and the path separator.
BucketChars == {"b", "/"}

\* os.environ.get(name) of a variable that is not set.
None == <<"None">>

\* Values of an RDS_* variable: not set, set to the empty string, set to a value.
EnvValues == {None, << >>, <<"x">>}

\* Values of S3_BUCKET after os.environ.get('S3_BUCKET', ''): unset reads as ''.
BucketSettings == UNION {[1..n -> BucketChars] : n \in 0..MaxBucketLen}

\* Values of SNS_TOPIC_ARN after os.environ.get('SNS_TOPIC_ARN', '').
TopicSettings == {<< >>, <<"t">>}

\* Two executions of the program over the same environment and the same world;
\* the second one exists to compare runs that differ in the publish failures only.
Runs == {"run", "twin"}

\* subprocess.run(pg_dump, timeout=3600): return code 0, return code # 0,
\* TimeoutExpired after one hour, or the executable cannot be launched.
DumpResults == {"exit0", "nonzero", "TimeoutExpired", "OSError"}

\* s3_client.upload_file: returns, or raises one of the three handled classes.
UploadResults == {"ok", "NoCredentialsError", "ClientError", "Exception"}

\* os.path.getsize / os.remove: returns or raises OSError.
FileResults == {"ok", "OSError"}

\* cloudwatch.put_metric_data: returns, or raises one of the two handled classes.
MetricResults == {"ok", "NoCredentialsError", "Exception"}

\* sns_client.publish: returns, or raises one of the three handled classes.
NotifyResults == {"ok", "NoCredentialsError", "ClientError", "Exception"}

\* The two readings of datetime.utcnow() in the try block (lines 136 and 140):
\* the clock may advance between them and never goes back.
ClockReadings == {<<t1, t2>> : t1 \in 0..MaxClock, t2 \in 0..MaxClock} \ 
                   {<<t1, t2>> \in (0..MaxClock) \X (0..MaxClock) : t2 < t1}
ReadingsSeen(seen) == IF seen = << >> THEN ClockReadings ELSE {seen}

\* A result of the world that was already observed stays what it was.
Outcomes(seen, all) == IF seen = "unset" THEN all ELSE {seen}

----------------------------------------------------------------------------
(* Module-level configuration, lines 24-47 *)

RDS_HOST == environ.RDS_HOST
RDS_DB_NAME == environ.RDS_DB_NAME
RDS_USERNAME == environ.RDS_USERNAME
RDS_PASSWORD == environ.RDS_PASSWORD
S3_BUCKET_RAW == environ.S3_BUCKET
SNS_TOPIC_ARN == environ.SNS_TOPIC_ARN

\* Mutant of Not: the test `v is None`, which lets an empty string pass.
NotIsNone(v) == v = None

\* Python truthiness of an optional string: `not v` holds for None and for ''.
Not(v) == v = None \/ v = << >>

\* '/' in s
HasSlash(s) == \E i \in 1..Len(s) : s[i] = "/"

\* s.split('/', 1) when '/' in s: the parts before and after the first separator.
FirstSlash(s) == CHOOSE i \in 1..Len(s) : s[i] = "/" /\ \A j \in 1..(i - 1) : s[j] # "/"
Split1(s) == <<SubSeq(s, 1, FirstSlash(s) - 1), SubSeq(s, FirstSlash(s) + 1, Len(s))>>

\* s.rstrip('/')
RECURSIVE RStrip(_)
RStrip(s) == IF s # << >> /\ s[Len(s)] = "/" THEN RStrip(SubSeq(s, 1, Len(s) - 1)) ELSE s

\* Lines 37-47: the bucket name.
ParseBucket(raw) ==
    IF raw # << >>
    THEN IF HasSlash(raw) THEN Split1(raw)[1] ELSE raw
    ELSE << >>

\* Lines 37-47: the key prefix.
ParsePrefix(raw) ==
    IF raw # << >>
    THEN IF HasSlash(raw)
         THEN IF Split1(raw)[2] # << >> THEN RStrip(Split1(raw)[2]) \o <<"/">> ELSE << >>
         ELSE << >>
    ELSE << >>

S3_BUCKET == ParseBucket(S3_BUCKET_RAW)
S3_PREFIX == ParsePrefix(S3_BUCKET_RAW)

\* Lines 120-126: the dict of required variables, in insertion order.
RequiredKeys == <<"RDS_HOST", "RDS_DB_NAME", "RDS_USERNAME", "RDS_PASSWORD", "S3_BUCKET">>
required_vars ==
    [k \in {RequiredKeys[i] : i \in 1..Len(RequiredKeys)} |->
        CASE k = "RDS_HOST" -> RDS_HOST
          [] k = "RDS_DB_NAME" -> RDS_DB_NAME
          [] k = "RDS_USERNAME" -> RDS_USERNAME
          [] k = "RDS_PASSWORD" -> RDS_PASSWORD
          [] k = "S3_BUCKET" -> S3_BUCKET]

\* Line 128: [k for k, v in required_vars.items() if not v]
IsMissing(k) == Not(required_vars[k])

\* Mutant of missing_vars: only the first missing key is kept.
missing_vars_first_only == SubSeq(SelectSeq(RequiredKeys, IsMissing), 1, 1)

missing_vars == SelectSeq(RequiredKeys, IsMissing)

----------------------------------------------------------------------------
(* Python control flow: statements, exceptions, exit *)

\* Mutant of IsException: SystemExit counted as an Exception, as if the
\* clauses said `except BaseException`.
IsBaseException(e) ==
    e \in {"Exception", "OSError", "TimeoutExpired", "NoCredentialsError", "ClientError",
           "SystemExit"}

\* Exception classes that derive from Exception.  SystemExit derives from
\* BaseException only, so `except Exception` does not catch it.
IsException(e) ==
    e \in {"Exception", "OSError", "TimeoutExpired", "NoCredentialsError", "ClientError"}

\* One entry of an execution's history: a call the program made, its result,
\* and the argument of the call that the history keeps (the Database
\* dimension of a metric, the key of an upload).
EventWith(kind, what, status, res, arg) ==
    [kind |-> kind, what |-> what, status |-> status, res |-> res, arg |-> arg]

Event(kind, what, status, res) == EventWith(kind, what, status, res, << >>)

Log(r, e) == [r EXCEPT !.events = Append(@, e)]

\* A statement is not executed while an exception is propagating.
Raised(r) == r.exc # "none"

Raise(r, e) == IF Raised(r) THEN r ELSE [r EXCEPT !.exc = e]

\* Mutant of sys_exit: the call is missing, control falls through.
sys_exit_missing(r, code) == r

\* sys.exit(code): raises SystemExit carrying the code.
sys_exit(r, code) ==
    IF Raised(r) THEN r ELSE [r EXCEPT !.exc = "SystemExit", !.arg = code]

\* The interpreter ends the process: main() returned (code 0), SystemExit
\* reached the top (its code), or another exception reached the top (code 1).
Exit(r, code) == [r EXCEPT !.pc = "exited", !.exit_code = code, !.exc = "none"]

\* Mutant of Handler: `except Exception` written before the TimeoutExpired
\* clause, so it takes the timeout too.
HandlerGenericFirst(e) == IF IsException(e) THEN "error" ELSE "propagate"

\* Mutant of Handler: a bare `except:` in place of `except Exception`, which
\* also takes SystemExit.
HandlerBareExcept(e) == IF e = "TimeoutExpired" THEN "timeout" ELSE "error"

\* Lines 232 and 242: the except clause of main()'s try block that takes the
\* exception, first match first; "propagate" when none does.
Handler(e) ==
    IF e = "TimeoutExpired" THEN "timeout"
    ELSE IF IsException(e) THEN "error"
    ELSE "propagate"

\* Where control goes after a block of statements: on to `next` (the end of
\* main() is "exited"), into an except clause when the block is inside the
\* try, or out of the process.
Resume(r, next, in_try) ==
    IF ~Raised(r)
    THEN IF next = "exited" THEN Exit(r, 0) ELSE [r EXCEPT !.pc = next]
    ELSE IF in_try /\ Handler(r.exc) # "propagate"
         THEN [r EXCEPT !.pc = Handler(r.exc), !.exc = "none"]
         ELSE Exit(r, IF r.exc = "SystemExit" THEN r.arg ELSE 1)

\* Line 130: logger.error with the joined names of the missing variables.
logger_error(r, names) == [r EXCEPT !.error_log = Append(@, names)]

\* Which exit path of main() the execution took (a label on the history).
Classify(r, outcome) == [r EXCEPT !.outcome = outcome]

----------------------------------------------------------------------------
(* The helpers, lines 54-115 *)

\* Mutant of MetricCaught: only the NoCredentialsError clause, no
\* `except Exception`.
MetricCaughtCredentialsOnly(e) == e = "NoCredentialsError"

\* Lines 77-80: put_metric_data's exception is caught and logged.
MetricCaught(e) == e = "NoCredentialsError" \/ IsException(e)

\* Lines 54-80: one put_metric_data call with dimensions Database and Status.
send_cloudwatch_metric(r, metric_name, status, put) ==
    IF Raised(r) THEN r
    ELSE LET called == Log(r, EventWith("metric", metric_name, status, put, RDS_DB_NAME))
         IN IF put = "ok" \/ MetricCaught(put) THEN called ELSE Raise(called, put)

\* Lines 94-99: publish's exception is caught and logged.
NotifyCaught(e) == e = "NoCredentialsError" \/ e = "ClientError" \/ IsException(e)

\* Lines 82-99: returns at once without a topic, else one publish call.
send_sns_notification(r, subject, pub) ==
    IF Raised(r) THEN r
    ELSE IF Not(SNS_TOPIC_ARN) THEN Log(r, Event("notify", subject, "-", "no_topic"))
    ELSE LET called == Log(r, Event("notify", subject, "-", pub))
         IN IF pub = "ok" \/ NotifyCaught(pub) THEN called ELSE Raise(called, pub)

\* Mutant of upload_to_s3: the last except clause returns True.
upload_to_s3_true_on_error(res) ==
    CASE res = "ok" -> TRUE
      [] res = "NoCredentialsError" -> FALSE
      [] res = "ClientError" -> FALSE
      [] OTHER -> TRUE

\* Lines 101-115: True when upload_file returned, False for each handled class.
upload_to_s3(res) ==
    CASE res = "ok" -> TRUE
      [] res = "NoCredentialsError" -> FALSE
      [] res = "ClientError" -> FALSE
      [] OTHER -> FALSE

----------------------------------------------------------------------------
(* main(), lines 117-250 *)

\* Lines 128-132: a required variable is missing: one failure metric, exit 1.
ConfigInvalid(self) ==
    /\ proc[self].pc = "start"
    /\ missing_vars # << >>
    /\ \E put \in MetricResults :
         proc' = [proc EXCEPT ![self] =
            Resume(sys_exit(send_cloudwatch_metric(
                       Classify(logger_error(@, missing_vars), "ConfigInvalid"),
                       "BackupFailure", "Failed", put), 1),
                   "name", FALSE)]
    /\ UNCHANGED <<environ, world>>

\* Lines 128-129: nothing is missing, main() enters the try block.
ConfigValidated(self) ==
    /\ proc[self].pc = "start"
    /\ missing_vars = << >>
    /\ proc' = [proc EXCEPT ![self] = Resume(@, "name", FALSE)]
    /\ UNCHANGED <<environ, world>>

\* strftime: the calendar day and the time of day of an instant.
Date(t) == t \div TicksPerDay
TimeOfDay(t) == t % TicksPerDay

\* Line 136: strftime('%Y-%m-%d-%H%M%S'), the day then the time of day.
FormatTimestamp(t) == <<Date(t), TimeOfDay(t)>>

\* Line 140: strftime('%Y/%m/%d'), the day as three directories.
FormatDatePath(t) == <<Date(t)>>

\* Line 137: f"backup-{RDS_DB_NAME}-{timestamp}.dump"
BackupFilename(db, timestamp) == <<"backup-", db, "-", timestamp, ".dump">>

\* Line 144: the prefix used when S3_PREFIX is empty.
DefaultPrefix == <<"b", "a", "c", "k", "u", "p", "s", "/">>

\* Lines 141-144: prefix, date path, "/", file name.
BuildKey(prefix, date_path, filename) ==
    <<IF ~Not(prefix) THEN prefix ELSE DefaultPrefix, date_path, "/", filename>>

\* Lines 136-165: file name, S3 key, child environment and pg_dump command.
\* The clock is read at line 136 for the timestamp and again at line 140 for
\* the date path.
NameArtifact(self) ==
    /\ proc[self].pc = "name"
    /\ \E now \in ReadingsSeen(world.clock) :
         /\ world' = [world EXCEPT !.clock = now]
         /\ LET timestamp == FormatTimestamp(now[1])
                backup_filename == BackupFilename(RDS_DB_NAME, timestamp)
                date_path == FormatDatePath(now[2])
            IN proc' = [proc EXCEPT ![self] =
                   Resume([@ EXCEPT !.timestamp = timestamp,
                                    !.local_file_path = <<"/tmp/", backup_filename>>,
                                    !.s3_key = BuildKey(S3_PREFIX, date_path, backup_filename)],
                          "dump", TRUE)]
    /\ UNCHANGED environ

\* Mutant of RunDump: subprocess.run without `timeout=`, so a dump that
\* exceeds the hour is waited for and the step never completes.
RunDumpNoTimeout(self) ==
    /\ proc[self].pc = "dump"
    /\ \E res \in Outcomes(world.dump, DumpResults) :
         /\ world' = [world EXCEPT !.dump = res]
         /\ LET called == Log(proc[self], Event("dump", "pg_dump", "-", res))
                after == IF res \in {"exit0", "nonzero"} THEN called ELSE Raise(called, res)
            IN proc' = [proc EXCEPT ![self] =
                   IF res = "TimeoutExpired" THEN @
                   ELSE Resume(after, IF res = "exit0" THEN "upload" ELSE "dump_failed", TRUE)]
    /\ UNCHANGED environ

\* Lines 169-177: subprocess.run with the one-hour timeout, then the test of
\* the return code.
RunDump(self) ==
    /\ proc[self].pc = "dump"
    /\ \E res \in Outcomes(world.dump, DumpResults) :
         /\ world' = [world EXCEPT !.dump = res]
         /\ LET called == Log(proc[self], Event("dump", "pg_dump", "-", res))
                after == IF res \in {"exit0", "nonzero"} THEN called ELSE Raise(called, res)
            IN proc' = [proc EXCEPT ![self] =
                   Resume(after, IF res = "exit0" THEN "upload" ELSE "dump_failed", TRUE)]
    /\ UNCHANGED environ

\* Lines 178-185: pg_dump failed: failure metric, failure notification, exit 1.
DumpFailed(self) ==
    /\ proc[self].pc = "dump_failed"
    /\ \E put \in MetricResults, pub \in NotifyResults :
         proc' = [proc EXCEPT ![self] =
            Resume(sys_exit(send_sns_notification(send_cloudwatch_metric(
                       Classify(@, "DumpFailed"), "BackupFailure", "Failed", put),
                       "BackupFailed", pub), 1),
                   "upload", TRUE)]
    /\ UNCHANGED <<environ, world>>

\* Line 191: the upload and the test of its result.
Upload(self) ==
    /\ proc[self].pc = "upload"
    /\ \E res \in Outcomes(world.upload, UploadResults) :
         /\ world' = [world EXCEPT !.upload = res]
         /\ proc' = [proc EXCEPT ![self] =
                Resume(Log(@, EventWith("upload", "s3", "-", res, @.s3_key)),
                       IF upload_to_s3(res) THEN "getsize" ELSE "upload_failed", TRUE)]
    /\ UNCHANGED environ

\* Mutant of UploadFailed: the local file is removed before the failure is
\* reported.
UploadFailedWithCleanup(self) ==
    /\ proc[self].pc = "upload_failed"
    /\ \E put \in MetricResults, pub \in NotifyResults,
          res \in Outcomes(world.remove, FileResults) :
         /\ world' = [world EXCEPT !.remove = res]
         /\ proc' = [proc EXCEPT ![self] =
                Resume(sys_exit(send_sns_notification(send_cloudwatch_metric(
                           Classify(Log(@, Event("remove", "local_file", "-", res)),
                                    "UploadFailed"),
                           "BackupFailure", "Failed", put),
                           "UploadFailed", pub), 1),
                       "getsize", TRUE)]
    /\ UNCHANGED environ

\* Lines 192-198: the upload failed: failure metric, its own notification, exit 1.
UploadFailed(self) ==
    /\ proc[self].pc = "upload_failed"
    /\ \E put \in MetricResults, pub \in NotifyResults :
         proc' = [proc EXCEPT ![self] =
            Resume(sys_exit(send_sns_notification(send_cloudwatch_metric(
                       Classify(@, "UploadFailed"), "BackupFailure", "Failed", put),
                       "UploadFailed", pub), 1),
                   "getsize", TRUE)]
    /\ UNCHANGED <<environ, world>>

\* Lines 201-202: os.path.getsize of the local file.
GetSize(self) ==
    /\ proc[self].pc = "getsize"
    /\ \E res \in Outcomes(world.getsize, FileResults) :
         /\ world' = [world EXCEPT !.getsize = res]
         /\ LET called == Log(proc[self], Event("getsize", "local_file", "-", res))
                after == IF res = "ok" THEN called ELSE Raise(called, res)
            IN proc' = [proc EXCEPT ![self] = Resume(after, "report", TRUE)]
    /\ UNCHANGED environ

\* Mutant of ReportSuccess: the notification is sent before the metrics.
ReportSuccessNotifyFirst(self) ==
    /\ proc[self].pc = "report"
    /\ \E put1 \in MetricResults, put2 \in MetricResults, pub \in NotifyResults :
         proc' = [proc EXCEPT ![self] =
            Resume(send_cloudwatch_metric(send_cloudwatch_metric(send_sns_notification(
                       @, "BackupSucceeded", pub),
                       "BackupSuccess", "Success", put1),
                       "BackupSize", "Success", put2),
                   "cleanup", TRUE)]
    /\ UNCHANGED <<environ, world>>

\* Lines 205-221: the two success metrics and the success notification.
ReportSuccess(self) ==
    /\ proc[self].pc = "report"
    /\ \E put1 \in MetricResults, put2 \in MetricResults, pub \in NotifyResults :
         proc' = [proc EXCEPT ![self] =
            Resume(send_sns_notification(send_cloudwatch_metric(send_cloudwatch_metric(
                       @, "BackupSuccess", "Success", put1),
                       "BackupSize", "Success", put2),
                       "BackupSucceeded", pub),
                   "cleanup", TRUE)]
    /\ UNCHANGED <<environ, world>>

\* Mutant of Cleanup: os.remove without its own try/except.
CleanupUncaught(self) ==
    /\ proc[self].pc = "cleanup"
    /\ \E res \in Outcomes(world.remove, FileResults) :
         /\ world' = [world EXCEPT !.remove = res]
         /\ LET called == Log(proc[self], Event("remove", "local_file", "-", res))
                after == IF res = "ok" THEN called ELSE Raise(called, res)
            IN proc' = [proc EXCEPT ![self] =
                   Resume(Classify(after, "Success"), "exited", TRUE)]
    /\ UNCHANGED environ

\* Lines 224-230: os.remove inside its own try/except Exception, then main()
\* returns and the process ends with code 0.
Cleanup(self) ==
    /\ proc[self].pc = "cleanup"
    /\ \E res \in Outcomes(world.remove, FileResults) :
         /\ world' = [world EXCEPT !.remove = res]
         /\ LET called == Log(proc[self], Event("remove", "local_file", "-", res))
                after == IF res = "ok" \/ IsException(res) THEN called ELSE Raise(called, res)
            IN proc' = [proc EXCEPT ![self] =
                   Resume(Classify(after, "Success"), "exited", TRUE)]
    /\ UNCHANGED environ

\* Lines 232-240: except subprocess.TimeoutExpired.
TimeoutHandler(self) ==
    /\ proc[self].pc = "timeout"
    /\ \E put \in MetricResults, pub \in NotifyResults :
         proc' = [proc EXCEPT ![self] =
            Resume(sys_exit(send_sns_notification(send_cloudwatch_metric(
                       Classify(@, "DumpTimedOut"), "BackupFailure", "Failed", put),
                       "BackupTimeout", pub), 1),
                   "exited", FALSE)]
    /\ UNCHANGED <<environ, world>>

\* Lines 242-250: except Exception.
ExceptionHandler(self) ==
    /\ proc[self].pc = "error"
    /\ \E put \in MetricResults, pub \in NotifyResults :
         proc' = [proc EXCEPT ![self] =
            Resume(sys_exit(send_sns_notification(send_cloudwatch_metric(
                       Classify(@, "UnexpectedError"), "BackupFailure", "Failed", put),
                       "BackupFailed", pub), 1),
                   "exited", FALSE)]
    /\ UNCHANGED <<environ, world>>

\* Lines 252-253: one step of one execution of main().
main(self) ==
    \/ ConfigInvalid(self)
    \/ ConfigValidated(self)
    \/ NameArtifact(self)
    \/ RunDump(self)
    \/ DumpFailed(self)
    \/ Upload(self)
    \/ UploadFailed(self)
    \/ GetSize(self)
    \/ ReportSuccess(self)
    \/ Cleanup(self)
    \/ TimeoutHandler(self)
    \/ ExceptionHandler(self)

----------------------------------------------------------------------------
(* Specifications *)

\* A process that has just been started.
Started ==
    [pc |-> "start", exc |-> "none", arg |-> 0, exit_code |-> -1,
     outcome |-> "none", events |-> << >>,
     timestamp |-> << >>, local_file_path |-> << >>, s3_key |-> << >>,
     error_log |-> << >>]

Init ==
    /\ environ \in [RDS_HOST : EnvValues, RDS_DB_NAME : EnvValues,
                    RDS_USERNAME : EnvValues, RDS_PASSWORD : EnvValues,
                    S3_BUCKET : BucketSettings, SNS_TOPIC_ARN : TopicSettings]
    /\ world = [clock |-> << >>, dump |-> "unset", upload |-> "unset",
                getsize |-> "unset", remove |-> "unset"]
    /\ proc = [p \in Runs |-> Started]

\* One execution of the program.
Next == main("run")

Spec == Init /\ [][Next]_vars

\* Two executions over the same environment and the same world, each with its
\* own results of the metric and notification publishes.
NextPair == \E self \in Runs : main(self)

SpecPair == Init /\ [][NextPair]_vars

\* One execution whose steps are always taken: the process runs on its own,
\* and each external call returns or raises (pg_dump within its timeout).
SpecFair == Init /\ [][Next]_vars /\ WF_vars(Next)

run == proc["run"]
twin == proc["twin"]

----------------------------------------------------------------------------
(* Reading an execution's history *)

Terminated(r) == r.pc = "exited"

\* Positions of the calls of one kind, and of one kind and name.
At(r, kind) == {i \in DOMAIN r.events : r.events[i].kind = kind}
AtNamed(r, kind, what) == {i \in At(r, kind) : r.events[i].what = what}

\* How many times a metric was emitted / a notification with a subject was issued.
Metrics(r, name) == Cardinality(AtNamed(r, "metric", name))
Notifications(r, subject) == Cardinality(AtNamed(r, "notify", subject))

\* How many publish calls reached SNS for a subject (none without a topic).
Published(r, subject) ==
    Cardinality({i \in AtNamed(r, "notify", subject) : r.events[i].res # "no_topic"})

\* The call of this kind was made and ended with this result.
Did(r, kind, res) == \E i \in At(r, kind) : r.events[i].res = res

\* The claim's notion of a missing required value, read off the environment.
Empty(v) == v = None \/ v = << >>
RequiredAbsentOrEmpty ==
    \/ Empty(environ.RDS_HOST)
    \/ Empty(environ.RDS_DB_NAME)
    \/ Empty(environ.RDS_USERNAME)
    \/ Empty(environ.RDS_PASSWORD)
    \/ S3_BUCKET = << >>

TopicConfigured == environ.SNS_TOPIC_ARN # << >>

\* One failure report: the failure metric once, no success metric, one
\* notification with the given subject and no other, which reaches SNS exactly
\* when a topic is configured.
OneFailureReport(r, subject) ==
    /\ Metrics(r, "BackupFailure") = 1
    /\ Metrics(r, "BackupSuccess") = 0
    /\ Metrics(r, "BackupSize") = 0
    /\ Notifications(r, subject) = 1
    /\ Cardinality(At(r, "notify")) = 1
    /\ Published(r, subject) = (IF TopicConfigured THEN 1 ELSE 0)

----------------------------------------------------------------------------
(* Claims *)

\* C1 (as stated): every run with a valid configuration whose dump exits 0 and
\* whose upload succeeds emits BackupSuccess once, BackupSize once, one success
\* notification when a topic is configured, no BackupFailure, and exits 0.
C1_UploadedRunReportsSuccess ==
    (/\ Terminated(run)
     /\ ~RequiredAbsentOrEmpty
     /\ Did(run, "dump", "exit0")
     /\ Did(run, "upload", "ok"))
    => /\ Metrics(run, "BackupSuccess") = 1
       /\ Metrics(run, "BackupSize") = 1
       /\ (TopicConfigured => Published(run, "BackupSucceeded") = 1)
       /\ Metrics(run, "BackupFailure") = 0
       /\ run.exit_code = 0

\* C2: when a required value is absent or empty, the run never calls the dump
\* tool, the upload, the size read, the deletion or a notification, and it ends
\* as ConfigInvalid with exit code 1 after exactly one metric, BackupFailure.
C2_ConfigInvalidBeforeAnySideEffect ==
    RequiredAbsentOrEmpty =>
       /\ At(run, "dump") = {}
       /\ At(run, "upload") = {}
       /\ At(run, "getsize") = {}
       /\ At(run, "remove") = {}
       /\ At(run, "notify") = {}
       /\ run.pc \in {"start", "exited"}
       /\ Terminated(run) =>
            /\ run.outcome = "ConfigInvalid"
            /\ run.exit_code = 1
            /\ Metrics(run, "BackupFailure") = 1
            /\ Cardinality(At(run, "metric")) = 1

\* A run ended by an empty (not absent) password, everything else being set.
C2_Witness ==
    /\ Terminated(run)
    /\ environ.RDS_PASSWORD = << >>
    /\ environ.RDS_HOST = <<"x">> /\ environ.RDS_DB_NAME = <<"x">>
    /\ environ.RDS_USERNAME = <<"x">> /\ S3_BUCKET # << >>
    /\ run.exit_code = 1

\* C3: when pg_dump returns a non-zero code, no upload is ever made, no success
\* or size metric is emitted, and the run ends as DumpFailed with exit code 1
\* after exactly one failure metric and exactly one failure notification.
C3_DumpFailureStopsBeforeUpload ==
    Did(run, "dump", "nonzero") =>
       /\ At(run, "upload") = {}
       /\ At(run, "remove") = {}
       /\ Metrics(run, "BackupSuccess") = 0
       /\ Metrics(run, "BackupSize") = 0
       /\ Terminated(run) =>
            /\ run.outcome = "DumpFailed"
            /\ OneFailureReport(run, "BackupFailed")
            /\ run.exit_code = 1

C3_Witness ==
    /\ Terminated(run)
    /\ Did(run, "dump", "nonzero")
    /\ Published(run, "BackupFailed") = 1

\* C4: when pg_dump exceeds the one-hour bound, no upload is ever made and the
\* run ends as DumpTimedOut with exit code 1 after exactly one failure metric
\* and exactly one notification, the one with the timeout subject.
C4_TimeoutIsDumpTimedOut ==
    Did(run, "dump", "TimeoutExpired") =>
       /\ At(run, "upload") = {}
       /\ Terminated(run) =>
            /\ run.outcome = "DumpTimedOut"
            /\ OneFailureReport(run, "BackupTimeout")
            /\ run.exit_code = 1

C4_Witness ==
    /\ Terminated(run)
    /\ Did(run, "dump", "TimeoutExpired")
    /\ Published(run, "BackupTimeout") = 1

\* C5: when the dump succeeded and the upload failed, for each of the three
\* failure classes, no success metric is emitted and the run ends as
\* UploadFailed with exit code 1 after exactly one failure metric and exactly
\* one notification, whose subject is the upload-failure one and not the
\* dump-failure one.
C5_UploadFailureIsUploadFailed ==
    (\E res \in UploadResults \ {"ok"} : Did(run, "upload", res)) =>
       /\ Did(run, "dump", "exit0")
       /\ Metrics(run, "BackupSuccess") = 0
       /\ Terminated(run) =>
            /\ run.outcome = "UploadFailed"
            /\ OneFailureReport(run, "UploadFailed")
            /\ Notifications(run, "BackupFailed") = 0
            /\ run.exit_code = 1

\* An upload that failed with an unclassified transport error.
C5_Witness ==
    /\ Terminated(run)
    /\ Did(run, "upload", "Exception")
    /\ Published(run, "UploadFailed") = 1

\* The calls other than publishes, in order, with their results.
IsStep(e) == e.kind \notin {"metric", "notify"}
Steps(r) == SelectSeq(r.events, IsStep)

\* The results of an execution's publish calls.
PublishResultsOf(r) == {r.events[i].res : i \in At(r, "metric") \cup At(r, "notify")}

\* C6: two runs over the same configuration and the same dump, upload and file
\* results, which differ only in which metric and notification publishes fail,
\* end with the same exit code and the same outcome after the same sequence of
\* dump, upload, size-read and deletion steps.
C6_PublishFailuresNeverChangeRun ==
    (Terminated(run) /\ Terminated(twin)) =>
       /\ run.exit_code = twin.exit_code
       /\ run.outcome = twin.outcome
       /\ Steps(run) = Steps(twin)

\* A run whose every publish failed (one for missing credentials) beside a run
\* whose every publish succeeded, both after a successful upload.
C6_Witness ==
    /\ Terminated(run) /\ Terminated(twin)
    /\ TopicConfigured
    /\ Did(run, "upload", "ok") /\ Did(run, "getsize", "ok")
    /\ "ok" \notin PublishResultsOf(run)
    /\ Did(run, "metric", "NoCredentialsError")
    /\ PublishResultsOf(twin) = {"ok"}
    /\ run.exit_code = 0

C9_OnePairPerTerminalTransition ==
    Terminated(run) =>
       /\ Cardinality(At(run, "metric")) = 1
       /\ Cardinality(At(run, "notify")) = 1

\* C9 (amended): nothing is emitted twice in a run, and a terminated run has
\* emitted the report of its outcome: ConfigInvalid one BackupFailure and no
\* notification; DumpFailed, DumpTimedOut, UploadFailed and the unexpected
\* error one BackupFailure and one notification with the outcome's subject;
\* Success one BackupSuccess, one BackupSize and one success notification.
C9_OneReportPerOutcome ==
    /\ \A i, j \in At(run, "metric") \cup At(run, "notify") :
         (run.events[i].kind = run.events[j].kind /\ run.events[i].what = run.events[j].what)
            => i = j
    /\ Terminated(run) =>
         CASE run.outcome = "ConfigInvalid" ->
                /\ Metrics(run, "BackupFailure") = 1
                /\ Cardinality(At(run, "metric")) = 1
                /\ At(run, "notify") = {}
           [] run.outcome = "DumpFailed" -> OneFailureReport(run, "BackupFailed")
           [] run.outcome = "DumpTimedOut" -> OneFailureReport(run, "BackupTimeout")
           [] run.outcome = "UploadFailed" -> OneFailureReport(run, "UploadFailed")
           [] run.outcome = "UnexpectedError" -> OneFailureReport(run, "BackupFailed")
           [] run.outcome = "Success" ->
                /\ Metrics(run, "BackupSuccess") = 1
                /\ Metrics(run, "BackupSize") = 1
                /\ Metrics(run, "BackupFailure") = 0
                /\ Notifications(run, "BackupSucceeded") = 1
                /\ Cardinality(At(run, "notify")) = 1
           [] OTHER -> FALSE

\* A successful run: two metrics and one notification.
C9_Witness ==
    /\ Terminated(run)
    /\ run.outcome = "Success"
    /\ Cardinality(At(run, "metric")) = 2
    /\ Published(run, "BackupSucceeded") = 1

\* The calls of an execution in order, without their results.
Calls(r) == [i \in DOMAIN r.events |-> <<r.events[i].kind, r.events[i].what>>]

\* C10 (as stated): on a run that exits 0 the deletion is attempted before the
\* success metrics and the success notification, and those are the last calls
\* before the exit.
C10_CleanupBeforeSuccessReport ==
    (Terminated(run) /\ run.exit_code = 0) =>
       /\ At(run, "remove") # {}
       /\ \A i \in At(run, "remove"), j \in At(run, "metric") \cup At(run, "notify") : i < j
       /\ run.events[Len(run.events)].kind = "notify"

\* C10 (amended): a run that exits 0 made exactly these calls in this order:
\* dump, upload, size read, BackupSuccess, BackupSize, success notification,
\* deletion; the deletion is the last call before the exit.
C10_SuccessReportBeforeCleanup ==
    (Terminated(run) /\ run.exit_code = 0) =>
       /\ run.outcome = "Success"
       /\ Calls(run) = << <<"dump", "pg_dump">>, <<"upload", "s3">>,
                          <<"getsize", "local_file">>,
                          <<"metric", "BackupSuccess">>, <<"metric", "BackupSize">>,
                          <<"notify", "BackupSucceeded">>, <<"remove", "local_file">> >>

C10_Witness ==
    /\ Terminated(run)
    /\ run.exit_code = 0
    /\ Did(run, "remove", "ok")

----------------------------------------------------------------------------
(* The remote key *)

\* The key the format gives for one timestamp: <prefix><YYYY>/<MM>/<DD>/
\* backup-<dbname>-<YYYY-MM-DD-HHMMSS>.dump, the prefix being backups/ when
\* none is configured.
KeyOf(prefix, db, t) ==
    <<IF prefix = << >> THEN DefaultPrefix ELSE prefix, <<Date(t)>>, "/",
      <<"backup-", db, "-", <<Date(t), TimeOfDay(t)>>, ".dump">> >>

\* C11 (as stated): the key of a run is the key of the format for the
\* database name, the prefix and one timestamp, so its directory part names
\* the same day as its file name, however the clock advances during the run.
C11_KeyFromOneTimestamp ==
    run.s3_key # << >> =>
       /\ \E t \in 0..MaxClock : run.s3_key = KeyOf(S3_PREFIX, RDS_DB_NAME, t)
       /\ run.s3_key[2] = <<run.s3_key[4][4][1]>>

\* A run that built its key with the clock passing midnight between the reads.
C11_MidnightBetweenReads ==
    /\ run.s3_key # << >>
    /\ Date(world.clock[1]) # Date(world.clock[2])

----------------------------------------------------------------------------
(* The bucket setting *)

\* The parsing as the claim words it.
StrippedRemainder(raw) == RStrip(SubSeq(raw, FirstSlash(raw) + 1, Len(raw)))
ClaimedBucket(raw) == IF HasSlash(raw) THEN SubSeq(raw, 1, FirstSlash(raw) - 1) ELSE raw
ClaimedPrefix(raw) ==
    IF HasSlash(raw) /\ StrippedRemainder(raw) # << >>
    THEN StrippedRemainder(raw) \o <<"/">>
    ELSE << >>

\* C12 (as stated): the bucket is what precedes the first separator and the
\* prefix is what follows it, trailing separators stripped and one separator
\* appended only if what is left is non-empty; without a separator the bucket
\* is the whole value and the prefix empty.  So the prefix is empty or a
\* non-empty path followed by exactly one separator.  Stated of a run that
\* has checked its configuration.
C12_PrefixParsing ==
    run.pc # "start" =>
       /\ S3_BUCKET = ClaimedBucket(S3_BUCKET_RAW)
       /\ S3_PREFIX = ClaimedPrefix(S3_BUCKET_RAW)
       /\ \/ S3_PREFIX = << >>
          \/ /\ Len(S3_PREFIX) >= 2
             /\ S3_PREFIX[Len(S3_PREFIX)] = "/"
             /\ S3_PREFIX[Len(S3_PREFIX) - 1] # "/"

----------------------------------------------------------------------------
(* Metric dimensions *)

\* C13 (as stated): every metric sample carries Database = the configured,
\* non-empty database name, and Status = Failed exactly for BackupFailure and
\* Success exactly for BackupSuccess and BackupSize, also on the ConfigInvalid
\* path.
C13_MetricDimensions ==
    \A i \in At(run, "metric") :
       /\ run.events[i].arg = environ.RDS_DB_NAME
       /\ ~Empty(run.events[i].arg)
       /\ run.events[i].status = "Failed" <=> run.events[i].what = "BackupFailure"
       /\ run.events[i].status = "Success"
             <=> run.events[i].what \in {"BackupSuccess", "BackupSize"}

----------------------------------------------------------------------------
(* The ConfigInvalid message *)

\* The required keys whose resolved value is absent or empty, as the claim
\* words it.
ClaimedMissing ==
    {k \in {"RDS_HOST"} : Empty(environ.RDS_HOST)}
    \cup {k \in {"RDS_DB_NAME"} : Empty(environ.RDS_DB_NAME)}
    \cup {k \in {"RDS_USERNAME"} : Empty(environ.RDS_USERNAME)}
    \cup {k \in {"RDS_PASSWORD"} : Empty(environ.RDS_PASSWORD)}
    \cup {k \in {"S3_BUCKET"} : ClaimedBucket(environ.S3_BUCKET) = << >>}

\* C14: a run that failed validation logged one message, which names every
\* required key whose value is absent or empty, each once, and no other key;
\* a run that passed validation logged none.
C14_MessageNamesEveryMissingKey ==
    /\ run.outcome = "ConfigInvalid" =>
         /\ Len(run.error_log) = 1
         /\ {run.error_log[1][i] : i \in DOMAIN run.error_log[1]} = ClaimedMissing
         /\ Len(run.error_log[1]) = Cardinality(ClaimedMissing)
         /\ ClaimedMissing # {}
    /\ run.outcome # "ConfigInvalid" => run.error_log = << >>
    /\ (Terminated(run) /\ ClaimedMissing # {}) => run.outcome = "ConfigInvalid"

\* A message with several keys, S3_BUCKET among them for a setting whose
\* bucket part is empty.
C14_Witness ==
    /\ Terminated(run)
    /\ environ.S3_BUCKET = <<"/", "b">>
    /\ environ.RDS_HOST = None /\ environ.RDS_PASSWORD = << >>
    /\ environ.RDS_DB_NAME = <<"x">> /\ environ.RDS_USERNAME = <<"x">>
    /\ run.error_log = << <<"RDS_HOST", "RDS_PASSWORD", "S3_BUCKET">> >>

----------------------------------------------------------------------------
(* Cleanup, unexpected errors, termination, the outcome metric *)

\* C15: a run that ended as ConfigInvalid, DumpFailed, DumpTimedOut or
\* UploadFailed attempted no deletion; in particular a run whose upload failed
\* ends without one, the local file being left in place.
C15_NoDeletionOnFailureExits ==
    /\ run.outcome \in {"ConfigInvalid", "DumpFailed", "DumpTimedOut", "UploadFailed"}
         => At(run, "remove") = {}
    /\ (Terminated(run) /\ ~Did(run, "upload", "ok")) => At(run, "remove") = {}

\* A run ended by a failed upload, with no deletion.
C15_Witness ==
    /\ Terminated(run)
    /\ run.outcome = "UploadFailed"
    /\ Did(run, "upload", "ClientError")
    /\ At(run, "remove") = {}

\* The call that raised an error no step handles itself: pg_dump could not be
\* launched, or the size of the file could not be read.
UnexpectedAt(r) ==
    {i \in At(r, "dump") \cup At(r, "getsize") : r.events[i].res = "OSError"}

\* C16: after an unexpected error inside the try block the only calls that
\* follow are one failure metric and one failure notification; no upload,
\* success metric, size read or deletion follows, and the run exits with code
\* 1.  A run that exited through the dump-failure or upload-failure path was
\* not handled again: it has one failure metric and one notification.
C16_UnexpectedErrorAbortsOnce ==
    /\ \A i \in UnexpectedAt(run) :
         /\ ~RequiredAbsentOrEmpty
         /\ \A j \in DOMAIN run.events :
              j > i => <<run.events[j].kind, run.events[j].what>>
                          \in {<<"metric", "BackupFailure">>, <<"notify", "BackupFailed">>}
         /\ Metrics(run, "BackupSuccess") = 0
         /\ At(run, "remove") = {}
         /\ Terminated(run) =>
              /\ run.outcome = "UnexpectedError"
              /\ OneFailureReport(run, "BackupFailed")
              /\ Len(run.events) = i + 2
              /\ run.exit_code = 1
    /\ (Terminated(run) /\ (Did(run, "dump", "nonzero") \/ (\E res \in UploadResults \ {"ok"} : Did(run, "upload", res))))
         => /\ Metrics(run, "BackupFailure") = 1
            /\ Cardinality(At(run, "notify")) = 1
            /\ run.outcome \in {"DumpFailed", "UploadFailed"}

\* A run whose pg_dump could not be launched.
C16_Witness ==
    /\ Terminated(run)
    /\ Did(run, "dump", "OSError")
    /\ Published(run, "BackupFailed") = 1
    /\ run.exit_code = 1

\* C17: every run eventually terminates, with exit code 0 or 1; a run whose
\* dump exceeded the timeout terminates through the DumpTimedOut exit.
C17_RunTerminates ==
    <>(/\ Terminated(run)
       /\ run.exit_code \in {0, 1}
       /\ Did(run, "dump", "TimeoutExpired") => run.outcome = "DumpTimedOut")

\* A run ended by the dump's timeout.
C17_Witness ==
    /\ Terminated(run)
    /\ Did(run, "dump", "TimeoutExpired")
    /\ run.exit_code = 1

\* C18: BackupSuccess is emitted only with a valid configuration and after a
\* dump that exited 0 and an upload that succeeded, in that order; a
\* terminated run emitted either BackupSuccess once and no BackupFailure, or
\* BackupFailure once and neither BackupSuccess nor BackupSize; and its exit
\* code is 0 exactly when it emitted BackupSuccess.
C18_ExactlyOneOutcomeMetric ==
    /\ \A k \in AtNamed(run, "metric", "BackupSuccess") :
         /\ ~RequiredAbsentOrEmpty
         /\ \E i \in At(run, "dump"), j \in At(run, "upload") :
              /\ i < j /\ j < k
              /\ run.events[i].res = "exit0"
              /\ run.events[j].res = "ok"
    /\ Terminated(run) =>
         /\ \/ Metrics(run, "BackupSuccess") = 1 /\ Metrics(run, "BackupFailure") = 0
            \/ /\ Metrics(run, "BackupFailure") = 1
               /\ Metrics(run, "BackupSuccess") = 0
               /\ Metrics(run, "BackupSize") = 0
         /\ run.exit_code = 0 <=> Metrics(run, "BackupSuccess") = 1
         /\ run.exit_code \in {0, 1}

\* A run that reports failure after a successful upload, with no success metric.
C18_Witness ==
    /\ Terminated(run)
    /\ Did(run, "getsize", "OSError")
    /\ Metrics(run, "BackupFailure") = 1
    /\ run.exit_code = 1

\* C19 (as stated): once the upload has returned success, the run emits no
\* BackupFailure metric and no failure notification and exits with code 0,
\* whatever happens in the remaining steps.
C19_UploadedRunNeverReportsFailure ==
    Did(run, "upload", "ok") =>
       /\ Metrics(run, "BackupFailure") = 0
       /\ \A i \in At(run, "notify") : run.events[i].what = "BackupSucceeded"
       /\ Terminated(run) => run.exit_code = 0

====
